---- MODULE Spec2Model ----
(***************************************************************************)
(* TruthEngine: the claim-verification pipeline of the server              *)
(* (verifyContent and the helpers it awaits), the blockchain verifier      *)
(* (getExistingVerification, storeVerification) and the TruthVerification  *)
(* contract used as the verification cache.                                *)
(*                                                                         *)
(* A run is one call of verifyContent.  Every `await` of the source is a   *)
(* point where another run's code may execute, so every action below is    *)
(* the synchronous code between two awaits: the settlement of the awaited  *)
(* call, everything verifyContent does with it, and the next call issued.  *)
(*                                                                         *)
(* Abstractions of data (not of control):                                  *)
(*  - a content string is an identifier; its keccak256 fingerprint is      *)
(*    written Hash(c) and is injective on the contents of the model;       *)
(*  - a text is the list of rewrites applied to the original content, so   *)
(*    two texts are equal iff the same rewrites produced them;             *)
(*  - an IPFS CID is content-addressed, so the blob itself stands for it.  *)
(***************************************************************************)
EXTENDS Integers, Sequences, FiniteSets, TLC

(* ------------------------------ bounds -------------------------------- *)

\* concurrent HTTP requests (calls of verifyContent)
NumRuns == 2

\* distinct content strings submitted
NumContents == 2

\* longest claims array the language model returns
MaxClaims == 2

\* longest claims array it returns while requests run concurrently
MaxConcClaims == 1

\* fallback sources of performSearch
NumSources == 3

\* distinct keyword sets among the search queries
NumKeywords == 1

\* longest searchQueries array given to scrapeForClaim
MaxQueries == 2

\* largest maxResults option given to scrapeForClaim
MaxMaxResults == 2

\* longest source list given to calculateTrustScore
MaxSources == 2
MaxCalls == 2

Runs == 1..NumRuns

Contents == 1..NumContents

(* ------------------------- values and helpers ------------------------- *)

\* An optional value (a field that may be undefined, a reference that may be
\* null) is a sequence of length 0 or 1.
None == <<>>

Some(x) == <<x>>

\* a claimText that is not a string (the model left the field out)
Undefined == "undefined"

\* the value `a || b` for a number a
OrDefault(a, b) == IF a = 0 THEN b ELSE a

\* Math.round(sum / n) for n > 0 and sum >= 0
Round(sum, n) == (2 * sum + n) \div (2 * n)

RECURSIVE SumTrust(_)
SumTrust(rs) ==
    IF rs = <<>> THEN 0
    ELSE OrDefault(Head(rs).trustScore, 50) + SumTrust(Tail(rs))

\* verificationResults.reduce(...)/length, rounded; 0 for no result
OverallTrustScore(rs) ==
    IF Len(rs) > 0 THEN Round(SumTrust(rs), Len(rs)) ELSE 0

\* hashContent: ethers.utils.id, keccak256 of the string
Hash(c) == <<"keccak256", c>>

\* trust scores scrapeForClaim returns with a non-empty data list: every
\* candidate site of performSearch is a high-authority one (80..95)
TrustScores == {80, 95}

\* The claims the language model may emit.  claimText is a string (plain, or
\* a birth claim mentioning 1946) or is missing; searchQueries is the length
\* of the query array (0 also stands for a missing array).
PlainClaim == [claimText |-> "text", searchQueries |-> 1]

NoQueryClaim == [claimText |-> "text", searchQueries |-> 0]

NoTextClaim == [claimText |-> Undefined, searchQueries |-> 1]

BirthClaim == [claimText |-> "born 1946", searchQueries |-> 1]

ClaimSet == {PlainClaim, NoQueryClaim, NoTextClaim, BirthClaim}

SeqsUpTo(S, n) == UNION {[1..k -> S] : k \in 0..n}

ClaimLists == SeqsUpTo(ClaimSet, MaxClaims)

ConcClaimLists == SeqsUpTo({PlainClaim}, MaxConcClaims)

\* sentences of a content that pass the length and factual-pattern filters
\* of extractBasicClaims (content c has c - 1 of them)
FactualSentences(c) == c - 1

\* extractBasicClaims: at most 3 of them, each with its derived queries
extractBasicClaims(c) ==
    LET n == IF FactualSentences(c) > 3 THEN 3 ELSE FactualSentences(c)
    IN  [i \in 1..n |-> PlainClaim]

\* verdicts analyzeSearchResultsWithOllama may parse from the model's answer
Verdict(st, fact) == [status |-> st, verifiedFact |-> fact]

Verdicts ==
    { Verdict("Confirms", "fact"), Verdict("Refutes", "fact"),
      Verdict("Confirms", "Not Found"), Verdict("Uncertain", "fact") }

\* the substitute answer of the timeout handler
TimeoutVerdict(claim) ==
    IF claim.claimText = "born 1946"
    THEN Verdict("Confirms", "fact")
    ELSE Verdict("Uncertain", claim.claimText)

\* the condition guarding the rewrite (server, line 374)
Actionable(v) ==
    /\ v.status \in {"Confirms", "Refutes"}
    /\ v.verifiedFact # "Not Found"

(* ------------------------------- state -------------------------------- *)

VARIABLES
    pc,                  \* where each run is (which await it is suspended on)
    content,             \* the content each request carries
    existingVerification,\* local `existingVerification` (line 269)
    results,             \* the `results` object of each run
    verifiedContent,     \* local `verifiedContent`
    verificationResults, \* local `verificationResults`
    idx,                 \* index of the claim the for-loop is at
    searchResponse,      \* local `searchResponse` of the current claim
    analysisResult,      \* local `analysisResult` of the current claim
    matched,             \* whether the replace of the last step found the claim text
    ipfsCid,             \* local `ipfsCid` of storeVerification
    called,              \* components each run has invoked so far
    logCapture,          \* the module-level log array
    cache,               \* the contract's `verifications` mapping
    scrape,              \* the locals of one call of scrapeForClaim
    sources,             \* the argument of one call of calculateTrustScore
    trust,               \* what that call returned
    response,            \* the answer of the model to one analysis request
    analysis,            \* what analyzeSearchResultsWithOllama made of it
    hostname,            \* the argument of the calls of calculateAuthorityScore
    authority,           \* what the TrustScorer's calculateAuthorityScore returned
    scraperScores,       \* what the calls of the scraper's one returned, in order
    verifications,       \* the mapping `verifications` of the contract
    contentHashes,       \* the array `contentHashes` of the contract
    stored               \* the content hashes storeVerification was called with

\* the variables of verifyContent and of the cache
serverVars ==
    <<pc, content, existingVerification, results, verifiedContent,
      verificationResults, idx, searchResponse, analysisResult, matched, ipfsCid,
      called, logCapture, cache>>

\* the variables of the functions modelled on their own
functionVars ==
    <<sources, trust, response, analysis, hostname, authority, scraperScores>>

\* the variables of the contract modelled on its own
contractVars == <<verifications, contentHashes, stored>>

vars == <<pc, content, existingVerification, results, verifiedContent, verificationResults, idx,
          searchResponse, analysisResult, matched, ipfsCid, called, logCapture, cache,
          scrape, sources, trust, response, analysis, hostname, authority,
          scraperScores, verifications, contentHashes, stored>>

\* no search response / the response with an empty data list
NoResponse == [n |-> 0, trustScore |-> 0]

\* the object literal of verifyContent (it has no trustScore and no error
\* field).  `logs` is a reference to logCapture: None while the run is in
\* progress, Some(the array's contents) once the object is serialized (when
\* the run is returned, or when it is stored as a blob).
NewResults(c) ==
    [ originalContent |-> c, verifiedContent |-> <<>>, status |-> "analyzing",
      progress |-> 0, claims |-> <<>>, changes |-> 0, results |-> <<>>,
      logs |-> None, blockchainVerified |-> FALSE, trustScore |-> None,
      error |-> None ]

\* a verification stored before the model starts: with its blob (the data of
\* an earlier run) or with an empty results hash
EarlierData ==
    [ trustScore |-> Some(80), claims |-> <<PlainClaim>>,
      results |-> << [claim |-> "text", status |-> "Confirms",
                      trustScore |-> 80, of |-> 1] >> ]

Record(hash, score, count) ==
    [resultsHash |-> hash, trustScore |-> score, claimCount |-> count]

EarlierRecords == { Record(Some(EarlierData), 80, 1), Record(None, 80, 1) }

\* the content that verification belongs to
EarlierContent == 1

(* --------------------- the state of one run, as a value ---------------- *)

\* The locals of run r; `log` collects what the step passes to captureLog and
\* `matched` what a String.prototype.replace of the step found.
Cur(r) ==
    [ pc |-> pc[r], existingVerification |-> existingVerification[r],
      results |-> results[r],
      verifiedContent |-> verifiedContent[r],
      verificationResults |-> verificationResults[r], idx |-> idx[r],
      searchResponse |-> searchResponse[r],
      analysisResult |-> analysisResult[r], matched |-> None,
      ipfsCid |-> ipfsCid[r], called |-> called[r], log |-> 0 ]

\* captureLog(type, message), once per tag: one more entry for each
captureLog(c, tags) == [c EXCEPT !.log = @ + Len(tags)]

Call(c, name) == [c EXCEPT !.called = @ \cup {name}]

\* `return results` / `return enhancedResults`
Return(c) == [c EXCEPT !.pc = "done"]

\* the catch of verifyContent (lines 450-455)
Catch(c) ==
    Return([captureLog(c, <<"verification error">>) EXCEPT
                !.results.status = "error", !.results.error = Some("message")])

\* a run that is stored whatever it has found
FinishStoreAlways(c) ==
    [Call(captureLog(c, <<"storing">>), "storeVerification")
         EXCEPT !.pc = "store_exists"]

\* lines 423-427: the run is stored only when it has a result
FinishStore(c) ==
    IF Len(c.verificationResults) > 0
    THEN [Call(captureLog(c, <<"storing">>), "storeVerification")
              EXCEPT !.pc = "store_exists"]
    ELSE Return(c)

\* lines 402-421: the summary and the final fields of the run
Finish(c) ==
    LET vr == c.verificationResults
        c1 == captureLog(c, <<"summary", "final content">>)
    IN  FinishStore(
          [c1 EXCEPT !.results.status = "completed",
                     !.results.progress = 100,
                     !.results.verifiedContent = c.verifiedContent,
                     !.results.changes = Len(vr),
                     !.results.results = vr,
                     !.results.trustScore = Some(OverallTrustScore(vr))])

\* the for-loop from claim i on, up to its next await (lines 340-350): claims
\* without queries are skipped, the first one with queries is scraped
RECURSIVE LoopFrom(_, _)
LoopFrom(c, i) ==
    LET c0 == [c EXCEPT !.searchResponse = NoResponse, !.analysisResult = None]
    IN  IF i > Len(c.results.claims) THEN Finish([c0 EXCEPT !.idx = i])
        ELSE IF c.results.claims[i].searchQueries = 0
             THEN LoopFrom(captureLog(c0, <<"skipping claim">>), i + 1)
             ELSE [Call(captureLog(c0, <<"searching">>), "scrapeForClaim")
                       EXCEPT !.pc = "scrape", !.idx = i]

\* `continue`, or the end of the loop body
NextClaim(c) == LoopFrom(c, c.idx + 1)

\* lines 308-338, with the claims analyzeWithOllama returned
AfterExtract(c, claims) ==
    LET c1 == captureLog([c EXCEPT !.results.claims = claims], <<"extracted">>)
    IN  IF Len(claims) = 0
        THEN Return([c1 EXCEPT !.results.status = "completed",
                               !.results.progress = 100])
        ELSE LET c2 == captureLog(c1, <<"claims", "verifying claims">>)
                 c3 == IF Len(claims) = 0
                       THEN LET fb == extractBasicClaims(c.results.originalContent)
                                c4 == Call(captureLog(c2, <<"trying fallback">>),
                                           "extractBasicClaims")
                            IN  IF Len(fb) > 0
                                THEN [captureLog(c4, <<"fallback found">>)
                                          EXCEPT !.results.claims = claims \o fb]
                                ELSE c4
                       ELSE c2
             IN  LoopFrom([c3 EXCEPT !.results.progress = 50], 1)

\* lines 294-307: no usable cached verification, the extraction is started
CacheMiss(c) ==
    [Call(captureLog(c, <<"no existing verification", "content",
                          "analyzing claims">>), "analyzeWithOllama")
         EXCEPT !.results.progress = 5, !.pc = "extract_probe"]

\* {...results, ...data}: every field of data replaces the field of results
Spread(res, data) ==
    [f \in DOMAIN res |-> IF f \in DOMAIN data THEN data[f] ELSE res[f]]

\* a cached verification that is logged and then not returned
CacheHitIgnored(c) == CacheMiss(c)

\* lines 271-293: the cached verification is returned
CacheHit(c) ==
    LET c1 == captureLog(c, <<"found existing", "cached from", "cached score">>)
        enhancedResults ==
            [Spread(c1.results, c.existingVerification[1].data[1]) EXCEPT
                 !.blockchainVerified = TRUE, !.status = "completed",
                 !.progress = 100]
    IN  Return([c1 EXCEPT !.results = enhancedResults])

\* getVerificationFromChain: the record, with `data` when its results hash is
\* not empty (part_001, lines 189-203)
FormattedRecord(rec) ==
    [ resultsHash |-> rec.resultsHash, trustScore |-> rec.trustScore,
      claimCount |-> rec.claimCount, data |-> rec.resultsHash ]

\* lines 269-296, with what getExistingVerification returned
AfterLookup(c, verification) ==
    LET c1 == [c EXCEPT !.existingVerification = verification]
    IN  IF verification # None /\ verification[1].data # None
        THEN CacheHit(c1)
        ELSE CacheMiss(c1)

\* a failed lookup reaching the catch of verifyContent
LookupFailedRethrown(c) == Catch(c)

\* getExistingVerification, lines 61-64: whatever the lookup throws is caught
\* and null is returned
LookupFailed(c) == AfterLookup(c, None)

\* lines 369-399 up to the rewrite call, with the analyzer's result
AfterAnalysis(c, result) ==
    IF result = None
    THEN NextClaim(captureLog(c, <<"analysis failed">>))
    ELSE IF Actionable(result[1])
         THEN [Call(c, "rewriteContentWithOllama")
                   EXCEPT !.analysisResult = result, !.pc = "rewrite_probe"]
         ELSE NextClaim(captureLog(c, <<"no update applied">>))

\* the entry put in front of the list in place of behind it
Unshift(list, entry) == <<entry>> \o list

\* an entry that is lost
Dropped(list, entry) == list

\* verificationResults.push(entry)
Push(list, entry) == Append(list, entry)

\* lines 384-399, with the text rewriteContentWithOllama returned
AfterRewrite(c, text) ==
    LET claim == c.results.claims[c.idx]
        c1 == [c EXCEPT !.verifiedContent = text]
    IN  IF text # c.verifiedContent
        THEN IF claim.claimText = Undefined
             THEN \* claim.claimText.match(...) throws a TypeError
                  Catch(captureLog(c1, <<"updated">>))
             ELSE NextClaim(
                    [captureLog(c1, <<"updated">>) EXCEPT
                       !.verificationResults = Push(@,
                          [ claim |-> claim.claimText,
                            status |-> c.analysisResult[1].status,
                            trustScore |-> OrDefault(c.searchResponse.trustScore, 50),
                            of |-> c.idx ])])
        ELSE NextClaim(captureLog(c1, <<"rewrite changed nothing">>))

\* a replace that edits the text whether or not it finds the claim text
ReplaceAlways(text, occurs, edit) == Append(text, edit)

\* String.prototype.replace(claimText, replacement) on the running text: the
\* text changes iff the claim text occurs in it
Replace(text, occurs, edit) == IF occurs THEN Append(text, edit) ELSE text

\* the fallbacks of rewriteContentWithOllama (lines 845, 896 and 904) return
\* the outcome of the replace to verifyContent
Fallback(c, occurs, edit) ==
    AfterRewrite([c EXCEPT !.matched = Some(occurs)],
                 Replace(c.verifiedContent, occurs, edit))

\* a failed store reaching the catch of verifyContent
StoreFailedRethrown(c) == Catch(c)

\* lines 442-448: a failed store is logged and the run returned as it is
StoreFailed(c) == Return(captureLog(c, <<"store failed">>))

\* lines 429-448, with what storeVerification returned
StoreReturned(c, blockchainResult) ==
    IF blockchainResult # None
    THEN Return([captureLog(c, <<"stored", "transaction">>)
                     EXCEPT !.results.blockchainVerified = TRUE])
    ELSE Return(c)

(* ------------------------- the contract ------------------------------- *)

\* TruthVerification.storeVerification (part_004, lines 41-81): the record of
\* the content hash is written, whatever the mapping held for it
ContractStore(records, contentHash, resultsHash, trustScore, claimCount) ==
    [records EXCEPT ![contentHash] =
         Some(Record(resultsHash, trustScore, claimCount))]

\* TruthVerification.verificationExists (part_004, lines 112-115)
verificationExists(records, contentHash) ==
    records[contentHash] # None

(* ------------------------- applying a step ---------------------------- *)

\* The log array is kept as what decides whose entries it holds: `has`, the
\* runs with at least one entry in it, and `cleared`, the runs that had
\* entries removed from it.  push appends and `length = 0` removes everything,
\* so the entries of one run that are in the array are always in the order
\* that run pushed them.
NoLog == [has |-> {}, cleared |-> {}]

\* logCapture.length = 0
Emptied(log) == [has |-> {}, cleared |-> log.cleared \cup log.has]

\* the log array `base` after run r pushed n entries
Pushed(base, r, n) ==
    IF n > 0 THEN [base EXCEPT !.has = @ \cup {r}] ELSE base

\* JSON.stringify of a results object while the log array holds `log`
Serialized(res, log) ==
    IF res.logs = None THEN [res EXCEPT !.logs = Some(log)] ELSE res

\* Run r moves to the state c; the log array was `base` before the step.
Apply(r, c, base) ==
    LET log == Pushed(base, r, c.log)
    IN  /\ pc' = [pc EXCEPT ![r] = c.pc]
        /\ existingVerification' =
               [existingVerification EXCEPT ![r] = c.existingVerification]
        /\ results' = [results EXCEPT ![r] =
                          IF c.pc = "done" THEN Serialized(c.results, log)
                          ELSE c.results]
        /\ verifiedContent' = [verifiedContent EXCEPT ![r] = c.verifiedContent]
        /\ verificationResults' =
               [verificationResults EXCEPT ![r] = c.verificationResults]
        /\ idx' = [idx EXCEPT ![r] = c.idx]
        /\ searchResponse' = [searchResponse EXCEPT ![r] = c.searchResponse]
        /\ analysisResult' = [analysisResult EXCEPT ![r] = c.analysisResult]
        /\ matched' = [matched EXCEPT ![r] = c.matched]
        /\ ipfsCid' = [ipfsCid EXCEPT ![r] = c.ipfsCid]
        /\ called' = [called EXCEPT ![r] = c.called]
        /\ logCapture' = log
        /\ UNCHANGED <<scrape, functionVars, contractVars>>

(* ------------------------- scrapeForClaim ------------------------------ *)

\* defaultOptions.maxResults
DefaultMaxResults == 5

\* A search query is <<k, v>>: k is what its significant keywords are (0 for a
\* query with none) and v how they are written.  Two spellings of the same
\* keywords differ in the case of a first letter only.
Spellings == {"lower", "upper"}

Queries ==
    {<<0, "lower">>} \cup {<<k, v>> : k \in 1..NumKeywords, v \in Spellings}

\* performSearch: no URL for a query without keywords, else one URL for each
\* fallback source.  The first two sources (Wikipedia, Britannica) get an
\* article URL built from the capitalized keywords, the same for both
\* spellings; the others get a search URL built from the keywords as written.
performSearch(query) ==
    IF query[1] = 0 THEN <<>>
    ELSE [s \in 1..NumSources |->
            IF s <= 2 THEN <<s, query[1], "article">>
            ELSE <<s, query[1], query[2]>>]

QueryLists == SeqsUpTo(Queries, MaxQueries)

\* the maxResults of the options argument: absent, or a number
MaxResultsOptions == {None} \cup {Some(n) : n \in 0..MaxMaxResults}

\* no call of scrapeForClaim
NoScrape ==
    [ pc |-> "idle", searchQueries |-> <<>>, maxResults |-> DefaultMaxResults,
      q |-> 0, urls |-> <<>>, u |-> 0, results |-> <<>>, failedUrls |-> <<>>,
      open |-> {}, returned |-> None ]

\* scrapeForClaim(searchQueries, null, options) before its loop (lines 27-39):
\* {...defaultOptions, ...options}
ScrapeCall(searchQueries, option) ==
    [NoScrape EXCEPT !.pc = "called", !.searchQueries = searchQueries,
                     !.maxResults = IF option = None THEN DefaultMaxResults
                                    ELSE option[1]]

\* results.sort((a, b) => b.authorityScore - a.authorityScore) left undone
Unsorted(rs) == rs

\* the list with doc put behind every element whose score is not lower
RECURSIVE Insert(_, _)
Insert(rs, doc) ==
    IF rs = <<>> THEN <<doc>>
    ELSE IF Head(rs).authorityScore >= doc.authorityScore
         THEN <<Head(rs)>> \o Insert(Tail(rs), doc)
         ELSE <<doc>> \o rs

\* Array.prototype.sort with that comparator: stable, highest score first
RECURSIVE SortByAuthority(_)
SortByAuthority(rs) ==
    IF rs = <<>> THEN <<>>
    ELSE Insert(SortByAuthority(SubSeq(rs, 1, Len(rs) - 1)), rs[Len(rs)])

RECURSIVE SumAuthority(_)
SumAuthority(rs) ==
    IF rs = <<>> THEN 0 ELSE Head(rs).authorityScore + SumAuthority(Tail(rs))

\* lines 113-138: sort, format, mean authority, return
FinishScrape(c) ==
    LET sorted == SortByAuthority(c.results)
        n == Len(sorted)
    IN  [c EXCEPT
           !.pc = "returned", !.results = sorted,
           !.returned = Some(
              [ data |-> sorted,
                status |-> IF n > 0 THEN "success" ELSE "no_results",
                trustScore |-> IF n > 0 THEN Round(SumAuthority(sorted), n)
                               ELSE 0,
                failedUrls |-> IF Len(c.failedUrls) > 0 THEN Some(c.failedUrls)
                               ELSE None ])]

\* the outer loop from query q on, up to `await performSearch(query)`
QueryFrom(c, q) ==
    IF q > Len(c.searchQueries) THEN FinishScrape(c)
    ELSE [c EXCEPT !.pc = "search", !.q = q, !.urls = <<>>, !.u = 0]

\* lines 104-107, after the URLs of a query
EndOfQuery(c) ==
    IF Len(c.results) >= c.maxResults THEN FinishScrape(c)
    ELSE QueryFrom(c, c.q + 1)

\* a URL check that finds no duplicate
NeverDuplicate(rs, url) == FALSE

\* results.some(r => r.url === url)
IsDuplicate(rs, url) == \E i \in 1..Len(rs) : rs[i].url = url

\* the inner loop from URL u on, up to `await fetchHtml(url)`: duplicates are
\* skipped; fetchHtml arms its timer and opens the request (lines 214-249)
RECURSIVE UrlFrom(_, _)
UrlFrom(c, u) ==
    IF u > Len(c.urls) THEN EndOfQuery(c)
    ELSE IF IsDuplicate(c.results, c.urls[u]) THEN UrlFrom(c, u + 1)
         ELSE [c EXCEPT !.pc = "fetch", !.u = u,
                        !.open = @ \cup {<<c.q, u>>}]

\* lines 47-53, with what performSearch returned
AfterSearch(c, urls) ==
    IF Len(urls) = 0 THEN QueryFrom(c, c.q + 1)
    ELSE UrlFrom([c EXCEPT !.urls = urls], 1)

\* lines 68-71: nothing extracted
NoContent(c) == UrlFrom(c, c.u + 1)

\* lines 73-94: the document is pushed; at maxResults both loops are left
PushDocument(c, score) ==
    LET c1 == [c EXCEPT !.results =
                  Append(@, [url |-> c.urls[c.u], authorityScore |-> score])]
    IN  IF Len(c1.results) >= c1.maxResults THEN EndOfQuery(c1)
        ELSE UrlFrom(c1, c.u + 1)

\* a failed fetch leaving scrapeForClaim as a rejection
FetchFailedRethrown(c, reason) == [c EXCEPT !.pc = "rejected"]

\* lines 95-101: the catch around one URL
FetchFailed(c, reason) ==
    UrlFrom([c EXCEPT !.failedUrls =
                 Append(@, [url |-> c.urls[c.u], reason |-> reason])],
            c.u + 1)

\* the request of the current fetchHtml is over
Closed(c) == [c EXCEPT !.open = @ \ {<<c.q, c.u>>}]

(* ------------------------ calculateTrustScore -------------------------- *)

\* Scores the component functions of source-analyzer.js give: an authority of
\* the domain table, the content quality of a short page or of no content,
\* the ownership score without and with ownership data, the citation and
\* bias scores of a page and their best values.
AuthorityScores == {20, 60, 90}

ContentQualityScores == {20, 40}

OwnershipScores == {50, 80}

CitationScores == {40, 100}

BiasScores == {40, 100}

\* a source, as the five scores calculateTrustScore computes for it
SourceSet ==
    [ authority : AuthorityScores, contentQuality : ContentQualityScores,
      ownership : OwnershipScores, citations : CitationScores,
      bias : BiasScores ]

SourceLists == SeqsUpTo(SourceSet, MaxSources)

\* Math.round(num / den) for den > 0 and num >= 0.  The quotient is computed
\* in floating point, so where num / den lies exactly between two integers
\* the result may be either of them.
Rounded(num, den) ==
    IF (2 * num) % (2 * den) = den
    THEN {num \div den, (num \div den) + 1}
    ELSE {Round(num, den)}

\* lines 59-65: the weighted sum of the five scores, times 100
TotalTimes100(source) ==
    30 * source.authority + 25 * source.contentQuality + 20 * source.ownership
        + 15 * source.citations + 10 * source.bias

\* line 95: Math.max(0.1, authorityComponent.score / 100), times 100
Weight(detail) == IF detail.authority > 10 THEN detail.authority ELSE 10

RECURSIVE WeightSum(_)
WeightSum(details) ==
    IF details = <<>> THEN 0
    ELSE Weight(Head(details)) + WeightSum(Tail(details))

RECURSIVE WeightedScoreSum(_)
WeightedScoreSum(details) ==
    IF details = <<>> THEN 0
    ELSE Head(details).overall * Weight(Head(details))
             + WeightedScoreSum(Tail(details))

\* line 100: Math.max(1, totalAuthorityWeight), times 100
Divisor(details) ==
    IF WeightSum(details) > 100 THEN WeightSum(details) ELSE 100

\* the score lines 39-87 may compute for one source, and for the sources
SourceScore(source) ==
    { [authority |-> source.authority, overall |-> totalScore] :
        totalScore \in Rounded(TotalTimes100(source), 100) }

SourceScores(list) ==
    { details \in [1..Len(list) -> UNION {SourceScore(list[i]) : i \in 1..Len(list)}] :
        \A i \in 1..Len(list) : details[i] \in SourceScore(list[i]) }

RECURSIVE InsertByOverall(_, _)
InsertByOverall(details, d) ==
    IF details = <<>> THEN <<d>>
    ELSE IF Head(details).overall >= d.overall
         THEN <<Head(details)>> \o InsertByOverall(Tail(details), d)
         ELSE <<d>> \o details

\* sourceScores.sort((a, b) => b.overall - a.overall), lines 110-111: the
\* array returned as sourceDetails is sorted in place
RECURSIVE SortByOverall(_)
SortByOverall(details) ==
    IF details = <<>> THEN <<>>
    ELSE InsertByOverall(SortByOverall(SubSeq(details, 1, Len(details) - 1)),
                         details[Len(details)])

\* what calculateTrustScore may return for the sources (lines 29-36 and
\* 89-114)
calculateTrustScore(list) ==
    IF Len(list) = 0
    THEN {[overall |-> 0, sourceDetails |-> <<>>, sourceCount |-> 0]}
    ELSE UNION {
           { [ overall |-> o, sourceDetails |-> SortByOverall(details),
               sourceCount |-> Len(list) ] :
               o \in Rounded(WeightedScoreSum(details), Divisor(details)) } :
           details \in SourceScores(list) }

(* ------------------- calculateAuthorityScore --------------------------- *)

\* A domain is the sequence of its labels and dots: "nasa.gov" is
\* <<"nasa", ".", "gov">>.  A label that contains the text of a table entry is
\* written in pieces: "governor" is <<"gov", "ernor">>.
Includes(domain, part) ==
    \E i \in 0..(Len(domain) - Len(part)) :
        SubSeq(domain, i + 1, i + Len(part)) = part

EndsWith(domain, suffix) ==
    /\ Len(suffix) <= Len(domain)
    /\ SubSeq(domain, Len(domain) - Len(suffix) + 1, Len(domain)) = suffix

\* an entry of a table of calculateAuthorityScore
E(domain, score, partial) ==
    [domain |-> domain, score |-> score, partial |-> partial]

\* source-analyzer.js, lines 122-178
highAuthoritySources ==
    << E(<<"reuters", ".", "com">>, 95, FALSE),
       E(<<"ap", ".", "org">>, 95, FALSE),
       E(<<"bbc", ".", "com">>, 90, FALSE),
       E(<<"bbc", ".", "co", ".", "uk">>, 90, FALSE),
       E(<<"npr", ".", "org">>, 85, FALSE),
       E(<<"nytimes", ".", "com">>, 85, FALSE),
       E(<<"washingtonpost", ".", "com">>, 85, FALSE),
       E(<<"theguardian", ".", "com">>, 85, FALSE),
       E(<<"gov">>, 90, TRUE),
       E(<<"fed", ".", "us">>, 90, TRUE),
       E(<<"nasa", ".", "gov">>, 95, FALSE),
       E(<<"nih", ".", "gov">>, 95, FALSE),
       E(<<"cdc", ".", "gov">>, 95, FALSE),
       E(<<"who", ".", "int">>, 90, FALSE),
       E(<<"un", ".", "org">>, 90, FALSE),
       E(<<"edu">>, 85, TRUE),
       E(<<"ac", ".", "uk">>, 85, TRUE),
       E(<<"harvard", ".", "edu">>, 95, FALSE),
       E(<<"mit", ".", "edu">>, 95, FALSE),
       E(<<"stanford", ".", "edu">>, 95, FALSE),
       E(<<"berkeley", ".", "edu">>, 95, FALSE),
       E(<<"nature", ".", "com">>, 95, FALSE),
       E(<<"science", ".", "org">>, 95, FALSE),
       E(<<"sciencedirect", ".", "com">>, 90, FALSE),
       E(<<"springer", ".", "com">>, 90, FALSE),
       E(<<"cell", ".", "com">>, 90, FALSE),
       E(<<"nejm", ".", "org">>, 95, FALSE),
       E(<<"jamanetwork", ".", "com">>, 90, FALSE),
       E(<<"factcheck", ".", "org">>, 90, FALSE),
       E(<<"politifact", ".", "com">>, 85, FALSE),
       E(<<"snopes", ".", "com">>, 85, FALSE),
       E(<<"fullfact", ".", "org">>, 85, FALSE),
       E(<<"britannica", ".", "com">>, 90, FALSE),
       E(<<"wikipedia", ".", "org">>, 75, FALSE),
       E(<<"wolframalpha", ".", "com">>, 85, FALSE),
       E(<<"apnews", ".", "com">>, 90, FALSE),
       E(<<"bloomberg", ".", "com">>, 80, FALSE),
       E(<<"economist", ".", "com">>, 85, FALSE),
       E(<<"ft", ".", "com">>, 85, FALSE),
       E(<<"wsj", ".", "com">>, 80, FALSE),
       E(<<"time", ".", "com">>, 80, FALSE),
       E(<<"theatlantic", ".", "com">>, 75, FALSE),
       E(<<"newyorker", ".", "com">>, 75, FALSE) >>

\* source-analyzer.js, lines 181-197
lowAuthoritySources ==
    << E(<<"breitbart", ".", "com">>, 35, FALSE),
       E(<<"infowars", ".", "com">>, 15, FALSE),
       E(<<"naturalnews", ".", "com">>, 20, FALSE),
       E(<<"dailycaller", ".", "com">>, 40, FALSE),
       E(<<"dailykos", ".", "com">>, 40, FALSE),
       E(<<"rt", ".", "com">>, 30, FALSE),
       E(<<"sputniknews", ".", "com">>, 30, FALSE),
       E(<<"theonion", ".", "com">>, 20, FALSE),
       E(<<"clickhole", ".", "com">>, 20, FALSE),
       E(<<"babylonbee", ".", "com">>, 20, FALSE),
       E(<<"tumblr", ".", "com">>, 30, FALSE),
       E(<<"blogspot", ".", "com">>, 30, FALSE),
       E(<<"medium", ".", "com">>, 50, FALSE),
       E(<<"wordpress", ".", "com">>, 30, FALSE),
       E(<<"substack", ".", "com">>, 50, FALSE) >>

\* source-analyzer.js, lines 216-227: the suffixes tested, in order
tldScores ==
    << <<<<".", "org">>, 65>>,
       <<<<".", "gov">>, 85>>,
       <<<<".", "edu">>, 80>>,
       <<<<".", "mil">>, 80>>,
       <<<<".", "int">>, 75>>,
       <<<<".", "museum">>, 70>>,
       <<<<".", "co", ".", "uk">>, 65>>,
       <<<<".", "com">>, 60>>,
       <<<<".", "net">>, 60>>,
       <<<<".", "info">>, 50>>,
       <<<<".", "biz">>, 45>>,
       <<<<".", "io">>, 55>> >>

\* the default of line 230
NeutralScore == 50

\* the entries of a table the domain matches, as the loop of lines 200-206
\* tests them
Matches(table, domain) ==
    { i \in 1..Len(table) :
        IF table[i].partial THEN Includes(domain, table[i].domain)
        ELSE domain = table[i].domain }

FirstMatch(S) == CHOOSE i \in S : \A j \in S : i <= j

\* the entries of the low-authority table are compared for equality only
\* (lines 209-213)
ExactMatches(table, domain) ==
    { i \in 1..Len(table) : domain = table[i].domain }

\* source-analyzer.js, calculateAuthorityScore (lines 120-231)
calculateAuthorityScore(domain) ==
    LET high == Matches(highAuthoritySources, domain)
        low == ExactMatches(lowAuthoritySources, domain)
        tld == { i \in 1..Len(tldScores) : EndsWith(domain, tldScores[i][1]) }
    IN  IF high # {} THEN highAuthoritySources[FirstMatch(high)].score
        ELSE IF low # {} THEN lowAuthoritySources[FirstMatch(low)].score
        ELSE IF tld # {} THEN tldScores[FirstMatch(tld)][2]
        ELSE NeutralScore

\* every domain that is a non-partial entry of one of the two tables
ListedDomains ==
    { highAuthoritySources[i].domain :
        i \in { j \in 1..Len(highAuthoritySources) : ~highAuthoritySources[j].partial } }
    \cup { lowAuthoritySources[i].domain : i \in 1..Len(lowAuthoritySources) }

\* domains that are no entry of a table: one for each suffix of the TLD list,
\* one with no listed suffix, a host under a listed domain, and one whose
\* label contains the text "gov"
UnlistedDomains ==
    { <<"example">> \o tldScores[i][1] : i \in 1..Len(tldScores) }
    \cup { <<"example", ".", "xyz">>,
           <<"www", ".", "reuters", ".", "com">>,
           <<"gov", "ernor", ".", "com">> }

Domains == ListedDomains \cup UnlistedDomains

\* scraper.js, lines 398-409 and 412-419
highAuthority ==
    { <<"wikipedia", ".", "org">>, <<"britannica", ".", "com">>,
      <<"reuters", ".", "com">>, <<"apnews", ".", "com">>,
      <<"bbc", ".", "com">>, <<"nytimes", ".", "com">>,
      <<"washingtonpost", ".", "com">>, <<"factcheck", ".", "org">>,
      <<"politifact", ".", "com">>, <<"snopes", ".", "com">> }

mediumAuthority ==
    { <<"time", ".", "com">>, <<"scientificamerican", ".", "com">>,
      <<"economist", ".", "com">>, <<"nationalgeographic", ".", "com">>,
      <<"theguardian", ".", "com">>, <<"npr", ".", "org">> }

\* Math.floor(Math.random() * 16) + base
RandomFrom(base) == base..(base + 15)

\* scraper.js, lines 439-446
HeuristicScore(domain) ==
    LET score == 50 + (IF EndsWith(domain, <<".", "org">>) THEN 10 ELSE 0)
                    + (IF EndsWith(domain, <<".", "gov">>) THEN 20 ELSE 0)
                    + (IF EndsWith(domain, <<".", "edu">>) THEN 15 ELSE 0)
        capped == IF score < 100 THEN score ELSE 100
    IN  IF capped > 10 THEN capped ELSE 10

\* scraper.js, calculateAuthorityScore (lines 396-447): the scores a call may
\* return for the domain
ScraperAuthorityScores(domain) ==
    IF \E high \in highAuthority : Includes(domain, high) THEN RandomFrom(80)
    ELSE IF \E medium \in mediumAuthority : Includes(domain, medium)
         THEN RandomFrom(65)
         ELSE {HeuristicScore(domain)}

(* ------------------- the TruthVerification contract --------------------- *)

\* the content hashes a caller of the contract may pass: any string, the
\* empty one included
EmptyString == ""

HashStrings == {EmptyString, "hash1", "hash2"}

\* the record a mapping of the contract holds for a key that was never written
ZeroRecord ==
    [contentHash |-> EmptyString, resultsHash |-> EmptyString, trustScore |-> 0,
     claimCount |-> 0]

VerificationRecords ==
    [contentHash : HashStrings, resultsHash : {"cid1", "cid2"},
     trustScore : {0, 100}, claimCount : {1}]

\* part_004, lines 60-71: the hash is appended unless the array holds it
PushIfAbsent(hashes, hash) ==
    IF \E i \in 1..Len(hashes) : hashes[i] = hash THEN hashes
    ELSE Append(hashes, hash)

\* part_004, lines 112-115: bytes(verifications[h].contentHash).length > 0
RecordExists(records, hash) == records[hash].contentHash # EmptyString

\* part_004, lines 121-123
getVerificationCount(hashes) == Len(hashes)

(* ------------- analyzeSearchResultsWithOllama: the answer --------------- *)

\* the status values of a verdict
StatusValues == {"Confirms", "Refutes", "Outdated", "Unrelated", "Uncertain"}

\* The text of the model's answer, as what the parsing of lines 245-269 finds
\* in it: no JSON at all, the JSON value null, or a JSON object.  A field of
\* the object is Some(string) when it is a string and None when it is missing
\* or of another type.
Answer(json, fact, source, status) ==
    [json |-> json, verifiedFact |-> fact, source |-> source, status |-> status]

Answers ==
    { Answer("none", None, None, None), Answer("null", None, None, None) }
    \cup { Answer("object", fact, source, status) :
             fact \in {None, Some("fact"), Some("Not Found")},
             source \in {None, Some("source")},
             status \in {None} \cup {Some(st) : st \in StatusValues \cup {"Partially"}} }

\* lines 243-291: the parsed object is returned when its three fields are
\* strings, null in every other case
ParseAnalysis(answer) ==
    IF /\ answer.json = "object"
       /\ answer.verifiedFact # None
       /\ answer.source # None
       /\ answer.status # None
    THEN Some([ verifiedFact |-> answer.verifiedFact[1],
                source |-> answer.source[1], status |-> answer.status[1] ])
    ELSE None

(* ----------------- functions modelled on their own: state --------------- *)

NoFunctionCall ==
    /\ sources = <<>>
    /\ trust = None
    /\ response = None
    /\ analysis = None
    /\ hostname = None
    /\ authority = None
    /\ scraperScores = <<>>

\* the contract as deployed
NoContract ==
    /\ verifications = [h \in HashStrings |-> ZeroRecord]
    /\ contentHashes = <<>>
    /\ stored = {}

(* ------------------------------ actions -------------------------------- *)

\* the server before any request
NoRequest ==
    /\ pc = [r \in Runs |-> "idle"]
    /\ content = [r \in Runs |-> 1]
    /\ existingVerification = [r \in Runs |-> None]
    /\ results = [r \in Runs |-> NewResults(1)]
    /\ verifiedContent = [r \in Runs |-> <<>>]
    /\ verificationResults = [r \in Runs |-> <<>>]
    /\ idx = [r \in Runs |-> 0]
    /\ searchResponse = [r \in Runs |-> NoResponse]
    /\ analysisResult = [r \in Runs |-> None]
    /\ matched = [r \in Runs |-> None]
    /\ ipfsCid = [r \in Runs |-> None]
    /\ called = [r \in Runs |-> {}]
    /\ logCapture = NoLog

Init ==
    /\ NoRequest
    /\ scrape = NoScrape
    /\ NoFunctionCall
    /\ NoContract
    /\ \E earlier \in {None} \cup {Some(rec) : rec \in EarlierRecords} :
         cache = [h \in {Hash(c) : c \in Contents} |->
                     IF h = Hash(EarlierContent) THEN earlier ELSE None]

\* POST /api/verify: verifyContent(content) up to its first await (lines
\* 247-269).  The log array is emptied, whoever else is using it.
Start(r) ==
    /\ pc[r] = "idle"
    /\ \E c \in Contents :
         /\ content' = [content EXCEPT ![r] = c]
         /\ Apply(r, [Call(captureLog(Cur(r), <<"checking cache">>),
                           "getExistingVerification")
                          EXCEPT !.results = NewResults(c),
                                 !.pc = "lookup_exists"],
                  Emptied(logCapture))
    /\ UNCHANGED cache

\* getExistingVerification: verificationExistsOnChain settles (lines 44-54)
LookupExists(r) ==
    /\ pc[r] = "lookup_exists"
    /\ \/ \* the call throws: caught, null is returned
          Apply(r, LookupFailed(Cur(r)), logCapture)
       \/ /\ ~verificationExists(cache, Hash(content[r]))
          /\ Apply(r, AfterLookup(Cur(r), None), logCapture)
       \/ /\ verificationExists(cache, Hash(content[r]))
          /\ Apply(r, [Cur(r) EXCEPT !.pc = "lookup_get"], logCapture)
    /\ UNCHANGED <<content, cache>>

\* getExistingVerification: getVerificationFromChain settles (lines 56-64)
LookupGet(r) ==
    /\ pc[r] = "lookup_get"
    /\ \/ \* the contract call or the blob retrieval throws
          Apply(r, LookupFailed(Cur(r)), logCapture)
       \/ Apply(r, AfterLookup(Cur(r),
                      Some(FormattedRecord(cache[Hash(content[r])][1]))),
                logCapture)
    /\ UNCHANGED <<content, cache>>

\* analyzeWithOllama: the request to /api/tags settles (lines 543-544)
ExtractProbe(r) ==
    /\ pc[r] = "extract_probe"
    /\ \/ Apply(r, [Cur(r) EXCEPT !.pc = "extract_generate"], logCapture)
       \/ \* rejected or not ok: analyzeWithOllama returns []
          Apply(r, AfterExtract(Cur(r), <<>>), logCapture)
    /\ UNCHANGED <<content, cache>>

\* analyzeWithOllama: the request to /api/generate settles (lines 552-617);
\* a failure or an answer without a claims array gives []
ExtractGenerate(r, lists) ==
    /\ pc[r] = "extract_generate"
    /\ \E claims \in lists : Apply(r, AfterExtract(Cur(r), claims), logCapture)
    /\ UNCHANGED <<content, cache>>

\* scrapeForClaim settles (lines 350-367): it always returns, with an empty
\* data list or with documents and their mean authority
ScrapeReturn(r) ==
    /\ pc[r] = "scrape"
    /\ \/ Apply(r, NextClaim(captureLog(Cur(r), <<"no search results">>)),
                logCapture)
       \/ \E t \in TrustScores :
            Apply(r, [Call(captureLog(Cur(r), <<"trust score", "analyzing">>),
                           "analyzeSearchResultsWithOllama")
                         EXCEPT !.searchResponse = [n |-> 1, trustScore |-> t],
                                !.pc = "analyze_probe"],
                  logCapture)
    /\ UNCHANGED <<content, cache>>

\* analyzeSearchResultsWithOllama: the request to /api/tags settles
\* (part_003, lines 103-104 and 292-295)
AnalyzeProbe(r) ==
    /\ pc[r] = "analyze_probe"
    /\ \/ Apply(r, [Cur(r) EXCEPT !.pc = "analyze_generate"], logCapture)
       \/ Apply(r, AfterAnalysis(Cur(r), None), logCapture)
    /\ UNCHANGED <<content, cache>>

\* analyzeSearchResultsWithOllama: the request to /api/generate answers
\* (part_003, lines 240-295): a verdict, or null for an unusable answer
AnalyzeGenerate(r) ==
    /\ pc[r] = "analyze_generate"
    /\ \E v \in {None} \cup {Some(x) : x \in Verdicts} :
         Apply(r, AfterAnalysis(Cur(r), v), logCapture)
    /\ UNCHANGED <<content, cache>>

\* analyzeSearchResultsWithOllama: the 30 s timer fires, or the request is
\* rejected, and the substitute answer is parsed (part_003, lines 191-238)
AnalyzeTimeout(r) ==
    /\ pc[r] = "analyze_generate"
    /\ Apply(r, AfterAnalysis(Cur(r),
                   Some(TimeoutVerdict(results[r].claims[idx[r]]))), logCapture)
    /\ UNCHANGED <<content, cache>>

\* rewriteContentWithOllama: the request to /api/tags settles (lines
\* 841-847 and 900-905); without the model the claim text is replaced by
\* "<fact> (Source: <source>)"
RewriteProbe(r) ==
    /\ pc[r] = "rewrite_probe"
    /\ \/ Apply(r, [Cur(r) EXCEPT !.pc = "rewrite_generate"], logCapture)
       \/ \E occurs \in BOOLEAN :
            Apply(r, Fallback(Cur(r), occurs, <<idx[r], "fact (Source)">>),
                  logCapture)
    /\ UNCHANGED <<content, cache>>

\* rewriteContentWithOllama: the request to /api/generate settles (lines
\* 877-905)
RewriteGenerate(r) ==
    /\ pc[r] = "rewrite_generate"
    /\ \/ \* the model returns a text that differs from the input
          Apply(r, AfterRewrite(Cur(r),
                      Append(verifiedContent[r], <<idx[r], "rewritten">>)),
                logCapture)
       \/ \* the model echoes the input or returns nothing
          \E occurs \in BOOLEAN :
            Apply(r, Fallback(Cur(r), occurs, <<idx[r], "fact">>), logCapture)
       \/ \* the request is rejected or not ok
          \E occurs \in BOOLEAN :
            Apply(r, Fallback(Cur(r), occurs, <<idx[r], "fact (Source)">>),
                  logCapture)
    /\ UNCHANGED <<content, cache>>

\* storeVerification: verificationExistsOnChain settles (lines 74-87).  With
\* no record the results object is serialized and sent to IPFS.
StoreExists(r) ==
    /\ pc[r] = "store_exists"
    /\ \/ Apply(r, StoreFailed(Cur(r)), logCapture)
       \/ IF verificationExists(cache, Hash(content[r]))
          THEN Apply(r, [Call(Cur(r), "getExistingVerification")
                            EXCEPT !.pc = "store_get_exists"], logCapture)
          ELSE Apply(r, [Call(Cur(r), "storeOnIPFS") EXCEPT
                            !.ipfsCid = Some(Serialized(results[r], logCapture)),
                            !.pc = "store_ipfs"], logCapture)
    /\ UNCHANGED <<content, cache>>

\* storeVerification, record found: getExistingVerification checks again
\* (lines 82 and 44-54)
StoreGetExists(r) ==
    /\ pc[r] = "store_get_exists"
    /\ \/ Apply(r, StoreReturned(Cur(r), None), logCapture)
       \/ IF verificationExists(cache, Hash(content[r]))
          THEN Apply(r, [Cur(r) EXCEPT !.pc = "store_get"], logCapture)
          ELSE Apply(r, StoreReturned(Cur(r), None), logCapture)
    /\ UNCHANGED <<content, cache>>

\* storeVerification, record found: the existing verification is returned in
\* place of a receipt, or null when reading it fails (lines 56-64)
StoreGet(r) ==
    /\ pc[r] = "store_get"
    /\ \/ Apply(r, StoreReturned(Cur(r), None), logCapture)
       \/ Apply(r, StoreReturned(Cur(r), cache[Hash(content[r])]), logCapture)
    /\ UNCHANGED <<content, cache>>

\* storeVerification: storeOnIPFS settles (lines 87-100)
StoreIpfs(r) ==
    /\ pc[r] = "store_ipfs"
    /\ \/ Apply(r, StoreFailed([Cur(r) EXCEPT !.ipfsCid = None]), logCapture)
       \/ Apply(r, [Call(Cur(r), "storeVerificationOnChain")
                       EXCEPT !.pc = "store_chain"], logCapture)
    /\ UNCHANGED <<content, cache>>

\* storeVerification: the transaction of storeVerificationOnChain is mined or
\* fails (lines 95-109; part_001, lines 124-145)
StoreChain(r) ==
    /\ pc[r] = "store_chain"
    /\ \/ /\ Apply(r, StoreFailed([Cur(r) EXCEPT !.ipfsCid = None]), logCapture)
          /\ UNCHANGED cache
       \/ /\ cache' = ContractStore(cache, Hash(content[r]), ipfsCid[r],
                                    OrDefault(results[r].trustScore[1], 0),
                                    Len(results[r].claims))
          /\ Apply(r, StoreReturned([Cur(r) EXCEPT !.ipfsCid = None],
                                    Some("receipt")), logCapture)
    /\ UNCHANGED content

\* one step of run r, the model answering an extraction with one of `lists`
Step(r, lists) ==
    \/ Start(r)
    \/ LookupExists(r)
    \/ LookupGet(r)
    \/ ExtractProbe(r)
    \/ ExtractGenerate(r, lists)
    \/ ScrapeReturn(r)
    \/ AnalyzeProbe(r)
    \/ AnalyzeGenerate(r)
    \/ AnalyzeTimeout(r)
    \/ RewriteProbe(r)
    \/ RewriteGenerate(r)
    \/ StoreExists(r)
    \/ StoreGetExists(r)
    \/ StoreGet(r)
    \/ StoreIpfs(r)
    \/ StoreChain(r)

\* One request, answered with up to MaxClaims claims of every kind.
Next == Step(1, ClaimLists)

Spec == Init /\ [][Next]_vars

\* NumRuns concurrent requests, answered with up to MaxConcClaims claims.
ConcNext == \E r \in Runs : Step(r, ConcClaimLists)

ConcSpec == Init /\ [][ConcNext]_vars

\* What the code's timers and the collaborators taken as responsive guarantee:
\* scrapeForClaim settles (every fetch is raced against a timer), the generate
\* request of the analyzer is raced against a 30 s timer, and the cache and
\* the blob store answer.  The requests made with `request` carry no timer,
\* and nothing is assumed of the language-model service that answers them.
Fairness ==
    /\ WF_vars(Start(1))
    /\ WF_vars(LookupExists(1) \/ LookupGet(1))
    /\ WF_vars(ScrapeReturn(1))
    /\ WF_vars(AnalyzeTimeout(1))
    /\ WF_vars(StoreExists(1) \/ StoreGetExists(1) \/ StoreGet(1)
                 \/ StoreIpfs(1) \/ StoreChain(1))

FairSpec == Spec /\ Fairness

(* ----------------------- scrapeForClaim: actions ----------------------- *)

\* the cache with no record
EmptyCache == [h \in {Hash(c) : c \in Contents} |-> None]

\* scrapeForClaim enters its loop and awaits the first performSearch
ScrapeStart ==
    /\ scrape.pc = "called"
    /\ scrape' = QueryFrom(scrape, 1)
    /\ UNCHANGED <<serverVars, functionVars, contractVars>>

\* performSearch returns its URLs (lines 45-63)
SearchReturn ==
    /\ scrape.pc = "search"
    /\ scrape' = AfterSearch(scrape, performSearch(scrape.searchQueries[scrape.q]))
    /\ UNCHANGED <<serverVars, functionVars, contractVars>>

\* fetchHtml: a 2xx response ends (lines 236-241); the timer is cleared, the
\* html is resolved and extractContent finds a text in it or none
FetchEnd ==
    /\ scrape.pc = "fetch"
    /\ \/ \E score \in TrustScores :
            scrape' = PushDocument(Closed(scrape), score)
       \/ scrape' = NoContent(Closed(scrape))
    /\ UNCHANGED <<serverVars, functionVars, contractVars>>

\* fetchHtml: a response with another status arrives (lines 230-234)
FetchStatus ==
    /\ scrape.pc = "fetch"
    /\ scrape' = FetchFailed(Closed(scrape), "Status code")
    /\ UNCHANGED <<serverVars, functionVars, contractVars>>

\* fetchHtml: the request emits an error (lines 244-247)
FetchError ==
    /\ scrape.pc = "fetch"
    /\ scrape' = FetchFailed(Closed(scrape), "network error")
    /\ UNCHANGED <<serverVars, functionVars, contractVars>>

\* fetchHtml: the timer fires first (lines 215-217); the promise is rejected
\* and nothing is done to the request
FetchTimeout ==
    /\ scrape.pc = "fetch"
    /\ scrape' = FetchFailed(scrape, "Request timeout")
    /\ UNCHANGED <<serverVars, functionVars, contractVars>>

\* the response (or the error) of a request whose fetchHtml has already
\* settled arrives and its handlers run (lines 229-247)
LateResponse ==
    /\ \E req \in scrape.open :
         /\ ~(scrape.pc = "fetch" /\ req = <<scrape.q, scrape.u>>)
         /\ scrape' = [scrape EXCEPT !.open = @ \ {req}]
    /\ UNCHANGED <<serverVars, functionVars, contractVars>>

ScrapeInit ==
    /\ NoRequest
    /\ cache = EmptyCache
    /\ NoFunctionCall
    /\ NoContract
    /\ \E searchQueries \in QueryLists, option \in MaxResultsOptions :
         scrape = ScrapeCall(searchQueries, option)

ScrapeNext ==
    \/ ScrapeStart
    \/ SearchReturn
    \/ FetchEnd
    \/ FetchStatus
    \/ FetchError
    \/ FetchTimeout
    \/ LateResponse

ScrapeSpec == ScrapeInit /\ [][ScrapeNext]_vars

(* ------------------ functions modelled on their own -------------------- *)

\* calculateTrustScore(sources) returns
CalculateTrust ==
    /\ response = None
    /\ hostname = None
    /\ trust = None
    /\ \E returned \in calculateTrustScore(sources) : trust' = Some(returned)
    /\ UNCHANGED <<serverVars, scrape, sources, response, analysis, hostname,
                   authority, scraperScores, contractVars>>

\* analyzeSearchResultsWithOllama gets the answer of the model and returns
\* (part_003, lines 240-295)
ParseResponse ==
    /\ response # None
    /\ analysis = None
    /\ analysis' = Some(ParseAnalysis(response[1]))
    /\ UNCHANGED <<serverVars, scrape, sources, trust, response, hostname,
                   authority, scraperScores, contractVars>>

\* the TrustScorer's calculateAuthorityScore(domain) returns
\* (source-analyzer.js, lines 120-231)
AuthorityScore ==
    /\ hostname # None
    /\ authority = None
    /\ authority' = Some(calculateAuthorityScore(hostname[1]))
    /\ UNCHANGED <<serverVars, scrape, sources, trust, response, analysis,
                   hostname, scraperScores, contractVars>>

\* one more call of the scraper's calculateAuthorityScore(domain) returns
\* (scraper.js, lines 396-447)
ScraperAuthorityScore ==
    /\ hostname # None
    /\ Len(scraperScores) < MaxCalls
    /\ \E score \in ScraperAuthorityScores(hostname[1]) :
         scraperScores' = Append(scraperScores, score)
    /\ UNCHANGED <<serverVars, scrape, sources, trust, response, analysis,
                   hostname, authority, contractVars>>

\* a call of calculateTrustScore, an answer of the model to the analyzer, or
\* a domain to score
FunctionInit ==
    /\ NoRequest
    /\ cache = EmptyCache
    /\ scrape = NoScrape
    /\ NoContract
    /\ trust = None
    /\ analysis = None
    /\ authority = None
    /\ scraperScores = <<>>
    /\ \/ sources \in SourceLists /\ response = None /\ hostname = None
       \/ /\ sources = <<>>
          /\ response \in {Some(answer) : answer \in Answers}
          /\ hostname = None
       \/ /\ sources = <<>>
          /\ response = None
          /\ hostname \in {Some(d) : d \in Domains}

FunctionNext ==
    \/ CalculateTrust
    \/ ParseResponse
    \/ AuthorityScore
    \/ ScraperAuthorityScore

FunctionSpec == FunctionInit /\ [][FunctionNext]_vars

(* ---------------- the TruthVerification contract: actions --------------- *)

\* TruthVerification.storeVerification (part_004, lines 41-81), called by
\* anyone with any arguments; the timestamp and the verifier of the record are
\* left out
StoreVerification ==
    /\ \E newRecord \in VerificationRecords :
         /\ verifications' =
                [verifications EXCEPT ![newRecord.contentHash] = newRecord]
         /\ contentHashes' = PushIfAbsent(contentHashes, newRecord.contentHash)
         /\ stored' = stored \cup {newRecord.contentHash}
    /\ UNCHANGED <<serverVars, scrape, functionVars>>

ContractInit ==
    /\ NoRequest
    /\ cache = EmptyCache
    /\ scrape = NoScrape
    /\ NoFunctionCall
    /\ NoContract

ContractNext == StoreVerification

ContractSpec == ContractInit /\ [][ContractNext]_vars

(* ------------------------------ claims --------------------------------- *)

\* the run has been returned to the route handler
Returned(r) == pc[r] = "done"

\* getExistingVerification gave the run a verification with its data
Hit(r) ==
    /\ existingVerification[r] # None
    /\ existingVerification[r][1].data # None

\* the run is between the scrape and the rewrite of claim idx[r]
InClaim(r) ==
    pc[r] \in {"scrape", "analyze_probe", "analyze_generate", "rewrite_probe",
               "rewrite_generate"}

\* C1: a run that is no cache hit and whose primary extraction returned no
\* claim calls extractBasicClaims before it completes, so it completes with no
\* claim only if the fallback extractor found none either.
C1_FallbackBeforeCompletion ==
    \A r \in Runs :
        ( /\ Returned(r) /\ ~Hit(r)
          /\ results[r].status = "completed"
          /\ results[r].claims = <<>> )
        => /\ "extractBasicClaims" \in called[r]
           /\ extractBasicClaims(content[r]) = <<>>

\* C2: a run ended by an exception while a claim was processed is returned
\* with status error, with the extracted claims and with one results entry for
\* every earlier claim whose rewrite changed the text.
C2_PartialResultsKept ==
    \A r \in Runs :
        (Returned(r) /\ results[r].status = "error" /\ idx[r] >= 1)
        => /\ results[r].claims # <<>>
           /\ results[r].results = verificationResults[r]

\* C3: the logs a run returns hold the entries that run logged, all of them
\* and no entry of another run.
C3_LogsAreOwn ==
    \A r \in Runs :
        Returned(r) =>
            /\ results[r].logs[1].has = {r}
            /\ r \notin results[r].logs[1].cleared

\* C4: once the cache holds a record for a fingerprint, that record is never
\* replaced.
C4_StoredRecordNeverReplaced ==
    [][\A h \in DOMAIN cache : cache[h] # None => cache'[h] = cache[h]]_vars

\* C5: every run that started eventually has status completed or error.
C5_EveryRunTerminates ==
    \A r \in Runs :
        (pc[r] # "idle") ~> (results[r].status \in {"completed", "error"})

C7_TrustScoreIsMean ==
    \A r \in Runs :
        (Returned(r) /\ ~Hit(r))
        => results[r].trustScore = Some(OverallTrustScore(results[r].results))

\* C8: a step adds a results entry exactly when it settles the rewrite of a
\* claim whose verdict is Confirms or Refutes with a fact other than
\* "Not Found" and the rewrite changed the running text; a step that adds no
\* entry leaves the running text as it was.
C8_EntryIffActionableRewrite ==
    [][\A r \in Runs :
         /\ (verificationResults'[r] # verificationResults[r])
            <=> ( /\ pc[r] \in {"rewrite_probe", "rewrite_generate"}
                  /\ analysisResult[r] # None
                  /\ Actionable(analysisResult[r][1])
                  /\ verifiedContent'[r] # verifiedContent[r] )
         /\ Len(verificationResults'[r]) <= Len(verificationResults[r]) + 1
      ]_vars

\* the entries of a results list are in the order of their claims
InClaimOrder(rs) ==
    \A i, j \in 1..Len(rs) : i < j => rs[i].of < rs[j].of

\* C9: claims are processed one after another in input order: the results
\* hold at most one entry for a claim, in the order of the claims, and while
\* a claim is scraped, analysed or rewritten every entry is of an earlier
\* claim.
C9_ResultsFollowClaimOrder ==
    \A r \in Runs :
        LET vr == verificationResults[r]
        IN  /\ InClaimOrder(vr)
            /\ InClaimOrder(results[r].results)
            /\ \A i \in 1..Len(vr) :
                 /\ vr[i].of \in 1..Len(results[r].claims)
                 /\ vr[i].of <= idx[r]
                 /\ InClaim(r) => vr[i].of < idx[r]

\* C9 witness: a run returned with an entry for each of two claims
C9_Witness ==
    \E r \in Runs :
        /\ Returned(r) /\ ~Hit(r)
        /\ Len(results[r].results) = 2

\* C10: a run whose cache lookup returned a verification with its data is
\* returned at once with status completed, progress 100, blockchainVerified
\* and the cached trustScore, claims and results, having called nothing but
\* the lookup.
C10_CacheHitReturnsCached ==
    \A r \in Runs :
        Hit(r) =>
            LET data == existingVerification[r][1].data[1]
            IN  /\ Returned(r)
                /\ results[r].status = "completed"
                /\ results[r].progress = 100
                /\ results[r].blockchainVerified
                /\ results[r].trustScore = data.trustScore
                /\ results[r].claims = data.claims
                /\ results[r].results = data.results
                /\ called[r] = {"getExistingVerification"}

\* C10 witness: a run returned from a cache hit
C10_Witness == \E r \in Runs : Returned(r) /\ Hit(r)

\* the cache holds a record with its data for the content of run r
Cached(r) ==
    /\ verificationExists(cache, Hash(content[r]))
    /\ cache[Hash(content[r])][1].resultsHash # None

\* C11: a cache lookup that fails is treated as a miss: the step that ends
\* the lookup without a usable verification leaves the run analyzing, starts
\* the claim extraction and takes the run to no other place; a run is in
\* error only for what happened while a claim was processed.
C11_LookupFailureIsMiss ==
    /\ [][\A r \in Runs :
            ( /\ pc[r] \in {"lookup_exists", "lookup_get"}
              /\ pc'[r] \notin {"lookup_exists", "lookup_get"}
              /\ ~Hit(r)' )
            => /\ pc'[r] = "extract_probe"
               /\ results'[r].status = "analyzing"
               /\ results'[r].progress = 5
               /\ "analyzeWithOllama" \in called'[r] ]_vars
    /\ [](\A r \in Runs : results[r].status = "error" => idx[r] >= 1)

\* C11 witness: the cache holds the data of the content, yet the run went on
\* to verify a claim and completed with a result of its own
C11_Witness ==
    \E r \in Runs :
        /\ Cached(r) /\ ~Hit(r) /\ Returned(r)
        /\ results[r].status = "completed"
        /\ Len(results[r].results) >= 1

\* run r is inside storeVerification
Storing(r) ==
    pc[r] \in {"store_exists", "store_get_exists", "store_get", "store_ipfs",
               "store_chain"}

\* C12: no step of storeVerification, failing or not, changes the status, the
\* progress, the claims, the results, the verifiedContent or the trustScore of
\* the run, and a run returned after the attempt to store it is completed with
\* progress 100 and the results and trustScore it had computed.
C12_StoreFailureKeepsRun ==
    /\ [][\A r \in Runs :
            Storing(r) =>
                /\ results'[r].status = results[r].status
                /\ results'[r].progress = results[r].progress
                /\ results'[r].claims = results[r].claims
                /\ results'[r].results = results[r].results
                /\ results'[r].verifiedContent = results[r].verifiedContent
                /\ results'[r].trustScore = results[r].trustScore ]_vars
    /\ [](\A r \in Runs :
            (Returned(r) /\ "storeVerification" \in called[r])
            => /\ results[r].status = "completed"
               /\ results[r].progress = 100
               /\ results[r].results = verificationResults[r]
               /\ results[r].verifiedContent = verifiedContent[r]
               /\ results[r].trustScore =
                      Some(OverallTrustScore(verificationResults[r])))

\* C12 witness: a run returned after the put to the blob store failed
C12_Witness ==
    \E r \in Runs :
        /\ Returned(r)
        /\ "storeOnIPFS" \in called[r]
        /\ "storeVerificationOnChain" \notin called[r]
        /\ Len(results[r].results) >= 1

\* scrapeForClaim has returned
Scraped == scrape.pc = "returned"

\* C13: the data list scrapeForClaim returns has at most maxResults documents.
C13_AtMostMaxResults ==
    Scraped => Len(scrape.returned[1].data) <= scrape.maxResults

\* no two elements of the list have the same url
DistinctUrls(rs) ==
    \A i, j \in 1..Len(rs) : i # j => rs[i].url # rs[j].url

\* C14: no two documents of the results, and so of the data list returned,
\* have the same url.
C14_NoDuplicateUrl ==
    /\ DistinctUrls(scrape.results)
    /\ Scraped => DistinctUrls(scrape.returned[1].data)

\* the candidate URLs of a query
UrlsOf(query) ==
    {performSearch(query)[s] : s \in 1..Len(performSearch(query))}

\* C14 witness: two queries share a candidate URL, and the call returned the
\* document of a shared URL and a document only the second query leads to
C14_Witness ==
    /\ Scraped
    /\ Len(scrape.searchQueries) = 2
    /\ LET data == scrape.returned[1].data
           first == UrlsOf(scrape.searchQueries[1])
           second == UrlsOf(scrape.searchQueries[2])
       IN  /\ \E i \in 1..Len(data) : data[i].url \in first \cap second
           /\ \E i \in 1..Len(data) : data[i].url \in second \ first

\* C15: the data list returned is ordered by non-increasing authorityScore.
C15_SortedByAuthority ==
    Scraped =>
        \A i, j \in 1..Len(scrape.returned[1].data) :
            i < j => scrape.returned[1].data[i].authorityScore
                        >= scrape.returned[1].data[j].authorityScore

\* C15 witness: the call returned a document ahead of one that was fetched
\* before it and has a lower score
C15_Witness ==
    /\ Scraped
    /\ Len(scrape.searchQueries) = 1
    /\ \E i, j \in 1..Len(scrape.returned[1].data) :
         /\ i < j
         /\ scrape.returned[1].data[i].authorityScore
               > scrape.returned[1].data[j].authorityScore
         /\ scrape.returned[1].data[i].url[1] > scrape.returned[1].data[j].url[1]

\* the URLs after the current one that the inner loop will not skip
Remaining(c) ==
    {u \in (c.u + 1)..Len(c.urls) : ~IsDuplicate(c.results, c.urls[u])}

\* the least element of a non-empty set of numbers
Least(S) == CHOOSE n \in S : \A m \in S : n <= m

\* C16: the step in which the fetch of a URL fails (status, network error or
\* timeout) appends that URL with the reason to failedUrls and leaves the
\* documents alone; scrapeForClaim then fetches the next candidate URL of the
\* query, after the last one goes on with the next query (unless maxResults
\* documents are collected), and after the last query returns, failedUrls
\* included.  scrapeForClaim never rejects.
C16_FetchFailureIsolated ==
    /\ [][(FetchStatus \/ FetchError \/ FetchTimeout) =>
            /\ Len(scrape'.failedUrls) = Len(scrape.failedUrls) + 1
            /\ scrape'.failedUrls[Len(scrape'.failedUrls)].url
                   = scrape.urls[scrape.u]
            /\ scrape'.failedUrls[Len(scrape'.failedUrls)].reason
                   \in {"Status code", "network error", "Request timeout"}
            /\ SubSeq(scrape'.failedUrls, 1, Len(scrape.failedUrls))
                   = scrape.failedUrls
            /\ IF Remaining(scrape) # {}
               THEN /\ scrape'.pc = "fetch"
                    /\ scrape'.q = scrape.q
                    /\ scrape'.u = Least(Remaining(scrape))
                    /\ scrape'.results = scrape.results
               ELSE IF /\ scrape.q < Len(scrape.searchQueries)
                       /\ Len(scrape.results) < scrape.maxResults
                    THEN /\ scrape'.pc = "search"
                         /\ scrape'.q = scrape.q + 1
                         /\ scrape'.results = scrape.results
                    ELSE /\ scrape'.pc = "returned"
                         /\ scrape'.returned[1].failedUrls
                                = Some(scrape'.failedUrls) ]_vars
    /\ [](scrape.pc # "rejected")

\* C16 witness: the first URL of the first query failed, and the call returned
\* a document of a later URL of that query and one of the second query
C16_Witness ==
    /\ Scraped
    /\ Len(scrape.searchQueries) = 2
    /\ Len(scrape.failedUrls) >= 1
    /\ LET data == scrape.returned[1].data
           first == UrlsOf(scrape.searchQueries[1])
           second == UrlsOf(scrape.searchQueries[2])
       IN  /\ scrape.failedUrls[1].url \in first
           /\ \E i \in 1..Len(data) : data[i].url \in first
           /\ \E i \in 1..Len(data) : data[i].url \in second \ first
           /\ scrape.returned[1].failedUrls = Some(scrape.failedUrls)

\* C17: every open request belongs to the fetchHtml that is pending: once
\* fetchHtml has settled, with a timeout or otherwise, its request is closed.
C17_TimeoutClosesRequest ==
    \A req \in scrape.open :
        scrape.pc = "fetch" /\ req = <<scrape.q, scrape.u>>

\* C18: for a non-empty source list the overall calculateTrustScore returns
\* is the rounded mean of the sources' overall weighted by
\* max(0.1, Authority / 100), and for one source it is that source's overall.
C18_AggregateIsWeightedMean ==
    (trust # None /\ Len(sources) > 0) =>
        LET details == trust[1].sourceDetails
        IN  /\ trust[1].overall
                 \in Rounded(WeightedScoreSum(details), WeightSum(details))
            /\ Len(sources) = 1 => trust[1].overall = details[1].overall

\* C19: what analyzeSearchResultsWithOllama returns for an answer of the model
\* is null or a verdict with its three fields and a status of the enum.
C19_VerdictStatusValid ==
    analysis # None =>
        \/ analysis[1] = None
        \/ /\ DOMAIN analysis[1][1] = {"verifiedFact", "source", "status"}
           /\ analysis[1][1].status \in StatusValues

\* C20: a step of rewriteContentWithOllama leaves the text to the text the
\* model wrote, or, on its fallback (no model, a failed call, an empty or
\* echoed text), to the input with the claim text, where it occurs, replaced by
\* "<verifiedFact> (Source: <source>)".
C20_FallbackCitesSource ==
    [][\A r \in Runs :
         pc[r] \in {"rewrite_probe", "rewrite_generate"} =>
            verifiedContent'[r] \in
                { verifiedContent[r],
                  Append(verifiedContent[r], <<idx[r], "rewritten">>),
                  Append(verifiedContent[r], <<idx[r], "fact (Source)">>) }]_vars

C22_AuthorityDeterministic ==
    \A i, j \in 1..Len(scraperScores) : scraperScores[i] = scraperScores[j]

\* C23: for a domain that is no entry of the curated table, the TrustScorer's
\* calculateAuthorityScore returns the score the TLD list gives for the
\* domain's suffix (.gov 85, .edu 80, .mil 80, .int 75, .org 65, .com and .net
\* 60, .info 50, .biz 45, .io 55), and 50 when no suffix of the list matches.
C23_UnlistedGetsTldScore ==
    (hostname # None /\ authority # None /\ hostname[1] \notin ListedDomains) =>
        LET d == hostname[1]
            Suffix(tld) == EndsWith(d, <<".", tld>>)
        IN  authority[1] =
              IF Suffix("gov") THEN 85
              ELSE IF Suffix("edu") \/ Suffix("mil") THEN 80
              ELSE IF Suffix("int") THEN 75
              ELSE IF Suffix("org") THEN 65
              ELSE IF Suffix("com") \/ Suffix("net") THEN 60
              ELSE IF Suffix("info") THEN 50
              ELSE IF Suffix("biz") THEN 45
              ELSE IF Suffix("io") THEN 55
              ELSE 50

\* the score listed for a domain that is a non-partial entry of a table
ListedScore(d) ==
    LET table == highAuthoritySources \o lowAuthoritySources
        entry == CHOOSE i \in 1..Len(table) :
                    ~table[i].partial /\ table[i].domain = d
    IN  table[entry].score

\* C29: for a domain that is a non-partial entry of the high-authority or the
\* low-authority table, calculateAuthorityScore returns the score listed for
\* that entry, whatever partial entries precede it.
C29_ListedGetsListedScore ==
    (hostname # None /\ authority # None /\ hostname[1] \in ListedDomains) =>
        authority[1] = ListedScore(hostname[1])

\* C30: after any calls of storeVerification, contentHashes holds no hash
\* twice, getVerificationCount is the number of distinct content hashes
\* stored, and verificationExists(h) is true exactly for the hashes stored.
C30_ContractConsistent ==
    /\ \A i, j \in 1..Len(contentHashes) :
           contentHashes[i] = contentHashes[j] => i = j
    /\ getVerificationCount(contentHashes) = Cardinality(stored)
    /\ \A h \in HashStrings : RecordExists(verifications, h) <=> h \in stored

\* C24: once maxResults documents are collected scrapeForClaim issues no
\* further search and no further fetch: while a performSearch or a fetchHtml
\* of the call is awaited, fewer than maxResults documents are collected.
C24_StopsAtMaxResults ==
    scrape.pc \in {"search", "fetch"} =>
        Len(scrape.results) < scrape.maxResults

\* C25: within one call a URL whose fetch failed is not fetched again: no URL
\* is twice in failedUrls, and the URL being fetched is not in failedUrls.
C25_FailedUrlNotRefetched ==
    /\ DistinctUrls(scrape.failedUrls)
    /\ scrape.pc = "fetch" =>
          \A i \in 1..Len(scrape.failedUrls) :
              scrape.failedUrls[i].url # scrape.urls[scrape.u]

\* C27: when the generate request of the analyzer times out or fails, the
\* substitute verdict is Uncertain with the claim text as its fact, whatever
\* the claim text: the step starts no rewrite.
C27_TimeoutVerdictInert ==
    [][\A r \in Runs :
         AnalyzeTimeout(r) =>
            LET v == TimeoutVerdict(results[r].claims[idx[r]])
            IN  /\ v.status = "Uncertain"
                /\ v.verifiedFact = results[r].claims[idx[r]].claimText
                /\ pc'[r] # "rewrite_probe"]_vars

\* run r has called storeVerification with a completed results object that
\* has an entry and is no cached verification
StoresCompleted(r) ==
    /\ results[r].status = "completed"
    /\ Len(results[r].results) >= 1
    /\ results[r].results = verificationResults[r]
    /\ ~Hit(r)

C28_ChangesMatchResults ==
    \A r \in Runs :
        (Returned(r) /\ ~Hit(r)) =>
            /\ results[r].changes = Len(results[r].results)
            /\ results[r].results = <<>> => results[r].verifiedContent = <<>>
            /\ Len(results[r].verifiedContent) = Len(results[r].results)
            /\ \A i \in 1..Len(results[r].results) :
                   results[r].verifiedContent[i][1] = results[r].results[i].of

C28_Witness ==
    \E r \in Runs :
        /\ Returned(r)
        /\ ~Hit(r)
        /\ results[r].changes = 2
        /\ results[r].verifiedContent # <<>>

====
